---- MODULE Spec2Model ----
(***************************************************************************)
(* A model of ubuntu_hook.py: the LogDirectoryMonitor watch registry       *)
(* (watch_descriptors, monitored_dirs), the translation of raw inotify     *)
(* events into LogEvents, and the monitoring loop with its cleanup.        *)
(*                                                                         *)
(* The inotify instance is the kernel's side of the program: a table of    *)
(* watches keyed by watch descriptor, one watch per directory inode.       *)
(* The filesystem and the kernel move on their own (a watched directory    *)
(* may be deleted and created again, a subscription may be refused).       *)
(***************************************************************************)
EXTENDS Integers, Sequences, FiniteSets, TLC

VARIABLES
    watch_descriptors,  \* self.watch_descriptors: dict wd -> directory path
    monitored_dirs,     \* self.monitored_dirs: set of directory paths
    kernel,             \* the inotify instance's watch table: wd -> inode
    removed,            \* history: the descriptor remove_directory removed last, 0 if none
    isdir,              \* the paths that os.path.isdir holds of right now
    output_file,        \* self.output_file: a path or None
    added_count,        \* main's added_count
    pc,                 \* where the monitor is: idle, running, processing, stopped, exited,
                        \* or returned (main has returned without constructing it)
    pending,            \* events of the batch read that are not handled yet
    cur,                \* the raw event handled last
    out,                \* what _process_event returned for cur: a LogEvent or nothing
    console,            \* what the handling of cur printed on stdout
    written,            \* what the handling of cur appended to output_file
    closed,             \* number of inotify.close() calls
    report,             \* main's summary line on stdout
    last,               \* the last step: the call, its argument, what it returned or
                        \* raised, and the last system call it made
    logged,             \* the logger calls of the last step of the program
    stat,               \* what the filesystem held under directory/name when cur was handled
    fs,                 \* the filesystem discovery walks
    log_dirs,           \* discover_log_directories: log_dirs, the set it returns
    dpc,                \* where discovery is: off, standard, nested, done
    next_seed,          \* index of the next entry of STANDARD_LOG_DIRS
    seeds,              \* list(log_dirs): the directories the nested walk starts from
    todo,               \* the directories of seeds the second loop has not taken yet
    stack,              \* the calls of _discover_nested_log_dirs in progress
    listed,             \* history: the paths os.listdir was called on
    run,                \* which call of discover_log_directories this is
    first,              \* history: what the first call returned
    batch,              \* the events of the batch read that the for loop has not reached
    delivered,          \* history: every raw event inotify.read() returned, in order
    emitted             \* history: every line _output_event printed, in order

\* The variables of discovery, and the histories of the loop.
dvars == <<fs, log_dirs, dpc, next_seed, seeds, todo, stack, listed, run, first>>
hvars == <<batch, delivered, emitted>>

vars == <<watch_descriptors, monitored_dirs, kernel, removed, isdir, output_file, added_count,
          pc, pending, cur, out, console, written, closed, report, last, logged, stat,
          dvars, hvars>>

registry == <<watch_descriptors, monitored_dirs>>

----------------------------------------------------------------------------
(* Bounds of the model. *)

MaxHandles == 2     \* watch descriptors the kernel hands out: 1..MaxHandles
MaxAdded == 2       \* successful add_directory calls counted by main
MaxBatch == 2       \* raw events one inotify.read() returns
MaxDelivered == 3   \* raw events read in all, where the history of the loop is kept

----------------------------------------------------------------------------
(* The filesystem the monitor runs on. *)

None == "None"

\* "/var/log/" names the directory "/var/log" a second time; "/etc/hosts" is a
\* regular file; "/var/log/app" may be deleted and created again.
Paths == {"/var/log", "/var/log/", "/var/log/app", "/etc/hosts"}
Volatile == {"/var/log/app"}
InitialDirs == {"/var/log", "/var/log/", "/var/log/app"}

\* The inode a path resolves to, named by its canonical path.
Inode(p) == IF p = "/var/log/" THEN "/var/log" ELSE p

Handles == 1..MaxHandles

Names == {"out.log"}
Sizes == {128}

\* Optional values: Nothing is Python's None where a value of another type
\* may stand instead, Some(x) the value.
Nothing == <<>>
Some(x) == <<x>>

----------------------------------------------------------------------------
(* Python dicts as functions with a finite domain. *)

Put(d, k, v) == [x \in DOMAIN d \cup {k} |-> IF x = k THEN v ELSE d[x]]
Del(d, k) == [x \in DOMAIN d \ {k} |-> d[x]]
Get(d, k) == IF k \in DOMAIN d THEN d[k] ELSE None
Values(d) == {d[k] : k \in DOMAIN d}
EmptyDict == [x \in {} |-> None]

Log(level, msg) == [level |-> level, msg |-> msg]

Call(op, path, ret, sys) == [op |-> op, path |-> path, ret |-> ret, sys |-> sys]

----------------------------------------------------------------------------
(* The inotify flags the monitor names (inotify_simple.flags: the Linux    *)
(* inotify ABI), and two flags the kernel sets that the monitor never      *)
(* asks for.                                                               *)

IN_MODIFY == 2
IN_CLOSE_WRITE == 8
IN_MOVED_FROM == 64
IN_MOVED_TO == 128
IN_CREATE == 256
IN_DELETE == 512
IN_IGNORED == 32768
IN_ISDIR == 1073741824

\* mask & flag, for a flag of one bit.
HasFlag(mask, flag) == (mask \div flag) % 2 = 1

AppendIf(s, cond, tag) == IF cond THEN Append(s, tag) ELSE s

\* event_types with elif in place of if: only the first class present is listed.
event_types_elif(mask) ==
    IF HasFlag(mask, IN_CREATE) THEN <<"CREATE">>
    ELSE IF HasFlag(mask, IN_MODIFY) THEN <<"MODIFY">>
    ELSE IF HasFlag(mask, IN_DELETE) THEN <<"DELETE">>
    ELSE IF HasFlag(mask, IN_MOVED_TO) THEN <<"MOVED_TO">>
    ELSE IF HasFlag(mask, IN_MOVED_FROM) THEN <<"MOVED_FROM">>
    ELSE IF HasFlag(mask, IN_CLOSE_WRITE) THEN <<"CLOSE_WRITE">>
    ELSE <<>>

\* The list event_types of _process_event: six tests, in the order of the code.
event_types(mask) ==
    LET t1 == AppendIf(<<>>, HasFlag(mask, IN_CREATE), "CREATE")
        t2 == AppendIf(t1, HasFlag(mask, IN_MODIFY), "MODIFY")
        t3 == AppendIf(t2, HasFlag(mask, IN_DELETE), "DELETE")
        t4 == AppendIf(t3, HasFlag(mask, IN_MOVED_TO), "MOVED_TO")
        t5 == AppendIf(t4, HasFlag(mask, IN_MOVED_FROM), "MOVED_FROM")
        t6 == AppendIf(t5, HasFlag(mask, IN_CLOSE_WRITE), "CLOSE_WRITE")
    IN  t6

\* sep.join(parts): a string is the sequence of its tokens, the separator
\* between every two parts.
RECURSIVE Join(_, _)
Join(sep, parts) ==
    IF parts = <<>> THEN <<>>
    ELSE IF Len(parts) = 1 THEN <<parts[1]>>
    ELSE <<parts[1], sep>> \o Join(sep, Tail(parts))

\* event_type = '|'.join(event_types) if event_types else 'UNKNOWN'
event_type(mask) ==
    IF event_types(mask) # <<>> THEN Join("|", event_types(mask)) ELSE <<"UNKNOWN">>

\* What the filesystem says of directory/name when the event is handled:
\* no such file, a file whose size cannot be read (os.path.getsize raises
\* OSError: it was deleted after os.path.exists), or a file of some size.
FileStates == [kind : {"absent", "unreadable"}, size : {0}] \cup [kind : {"file"}, size : Sizes]

\* os.path.exists(full_path)
exists(fstate) == fstate.kind # "absent"

\* _get_file_size with "return 0" in the except clause.
get_file_size_zero(fstate) == IF fstate.kind = "file" THEN Some(fstate.size) ELSE Some(0)

\* _get_file_size: the size, or None when os.path.getsize raises.
get_file_size(fstate) == IF fstate.kind = "file" THEN Some(fstate.size) ELSE Nothing

\* _process_event with watch_descriptors.get(event.wd, '') and no test of the
\* result: an unknown wd yields an event of the directory ''.
process_event_default_dir(wds, ev, fstate) ==
    Some([path |-> IF ev.wd \in DOMAIN wds THEN wds[ev.wd] ELSE "",
          filename |-> ev.name,
          event_type |-> event_type(ev.mask),
          size |-> IF exists(fstate) THEN get_file_size(fstate) ELSE Nothing])

\* _process_event: the LogEvent of a raw event, or None for an unknown wd.
\* The timestamp (the wall clock at translation time) is left out.
process_event(wds, ev, fstate) ==
    LET directory == Get(wds, ev.wd)
    IN  IF directory = None THEN Nothing
        ELSE Some([path |-> directory,
                   filename |-> ev.name,
                   event_type |-> event_type(ev.mask),
                   size |-> IF exists(fstate) THEN get_file_size(fstate) ELSE Nothing])

\* The line print() writes for a LogEvent (the terse form).
ConsoleLine(le) == [event_type |-> le.event_type, path |-> le.path, filename |-> le.filename]

\* _output_event without the try around the append: a failing append raises.
output_event_unguarded(le, ofile, printOk, fileOk) ==
    IF ~printOk THEN
        [console |-> Nothing, written |-> Nothing, logged |-> {}, raised |-> TRUE,
         sys |-> "print_raised"]
    ELSE IF ofile = None THEN
        [console |-> Some(ConsoleLine(le)), written |-> Nothing, logged |-> {}, raised |-> FALSE,
         sys |-> "print"]
    ELSE IF fileOk THEN
        [console |-> Some(ConsoleLine(le)), written |-> Some(le), logged |-> {}, raised |-> FALSE,
         sys |-> "write"]
    ELSE
        [console |-> Some(ConsoleLine(le)), written |-> Nothing, logged |-> {}, raised |-> TRUE,
         sys |-> "write_raised"]

\* _output_event: print, then append to output_file if one is set. A print
\* that fails (stdout is a closed pipe, a file name stdout cannot encode)
\* raises out of _output_event; a failing append is caught and logged.
output_event(le, ofile, printOk, fileOk) ==
    IF ~printOk THEN
        [console |-> Nothing, written |-> Nothing, logged |-> {}, raised |-> TRUE,
         sys |-> "print_raised"]
    ELSE IF ofile = None THEN
        [console |-> Some(ConsoleLine(le)), written |-> Nothing, logged |-> {}, raised |-> FALSE,
         sys |-> "print"]
    ELSE IF fileOk THEN
        [console |-> Some(ConsoleLine(le)), written |-> Some(le), logged |-> {}, raised |-> FALSE,
         sys |-> "write"]
    ELSE
        [console |-> Some(ConsoleLine(le)), written |-> Nothing,
         logged |-> {Log("ERROR", "Error writing to output file")}, raised |-> FALSE,
         sys |-> "write_raised"]

----------------------------------------------------------------------------
(* The inotify instance. *)

\* What inotify.add_watch(directory) can do: refuse (EACCES raises
\* PermissionError, ENOSPC another OSError), return the descriptor of the
\* watch the inode already has, or a descriptor that names no watch now.
AddWatchResults(directory) ==
    LET have == {h \in DOMAIN kernel : kernel[h] = Inode(directory)}
    IN  [err : {"EACCES", "ENOSPC"}, wd : {0}]
            \cup [err : {"none"}, wd : IF have # {} THEN have ELSE Handles \ DOMAIN kernel]

\* Whether stdout takes the line and whether the output file takes the record.
\* The file is tried only after a print that worked, and only if one is set.
SinkStates ==
    {[printOk |-> FALSE, fileOk |-> TRUE], [printOk |-> TRUE, fileOk |-> TRUE]}
        \cup (IF output_file # None THEN {[printOk |-> TRUE, fileOk |-> FALSE]} ELSE {})

\* The raw events a read can deliver. A descriptor may name a watch that is
\* gone: events queue up in the kernel before a watch is removed. Every
\* other mask is delivered under SpecTranslate below.
Masks == {IN_CREATE + IN_CLOSE_WRITE}
RawEvents == [wd : Handles, mask : Masks, name : Names]

----------------------------------------------------------------------------
(* The state after LogDirectoryMonitor.__init__, as main constructs it. *)

NoReport == [kind |-> "none", count |-> 0]

\* The monitor is given its directories by --dirs: discovery has not run.
NoDiscovery ==
    /\ fs = [cyclic |-> FALSE, haslogs |-> {}, denied |-> {}]
    /\ log_dirs = {}
    /\ dpc = "off"
    /\ next_seed = 1
    /\ seeds = {}
    /\ todo = {}
    /\ stack = <<>>
    /\ listed = {}
    /\ run = 1
    /\ first = {}

\* The histories of the loop are kept only where a batch is a sequence.
NoHistory ==
    /\ batch = <<>>
    /\ delivered = <<>>
    /\ emitted = <<>>

Init ==
    /\ watch_descriptors = EmptyDict
    /\ monitored_dirs = {}
    /\ kernel = EmptyDict
    /\ removed = 0
    /\ isdir = InitialDirs
    /\ output_file \in {None, "events.json"}
    /\ added_count = 0
    /\ pc = "idle"
    /\ pending = 0
    /\ cur = Nothing
    /\ out = Nothing
    /\ console = Nothing
    /\ written = Nothing
    /\ closed = 0
    /\ report = NoReport
    /\ last = Call("init", None, "None", "none")
    /\ logged = {}
    /\ stat = Nothing
    /\ NoDiscovery
    /\ NoHistory

----------------------------------------------------------------------------
(* The registry: add_directory and remove_directory. *)

\* add_directory without the test "directory in self.monitored_dirs".
add_directory_unchecked(directory, res) ==
    IF directory \notin isdir THEN
        /\ UNCHANGED <<watch_descriptors, monitored_dirs, kernel>>
        /\ last' = Call("add", directory, "False", "none")
        /\ logged' = {Log("WARNING", "Directory does not exist")}
    ELSE IF res.err = "EACCES" THEN
        /\ UNCHANGED <<watch_descriptors, monitored_dirs, kernel>>
        /\ last' = Call("add", directory, "False", "add_watch")
        /\ logged' = {Log("ERROR", "Permission denied accessing")}
    ELSE IF res.err = "ENOSPC" THEN
        /\ UNCHANGED <<watch_descriptors, monitored_dirs, kernel>>
        /\ last' = Call("add", directory, "False", "add_watch")
        /\ logged' = {Log("ERROR", "Error adding watch")}
    ELSE
        /\ watch_descriptors' = Put(watch_descriptors, res.wd, directory)
        /\ monitored_dirs' = monitored_dirs \cup {directory}
        /\ kernel' = Put(kernel, res.wd, Inode(directory))
        /\ last' = Call("add", directory, "True", "add_watch")
        /\ logged' = {Log("INFO", "Added watch for directory")}

\* add_directory with monitored_dirs.add(directory) moved before add_watch: a
\* refused subscription leaves the directory in monitored_dirs.
add_directory_marks_first(directory, res) ==
    IF directory \notin isdir THEN
        /\ UNCHANGED <<watch_descriptors, monitored_dirs, kernel>>
        /\ last' = Call("add", directory, "False", "none")
        /\ logged' = {Log("WARNING", "Directory does not exist")}
    ELSE IF directory \in monitored_dirs THEN
        /\ UNCHANGED <<watch_descriptors, monitored_dirs, kernel>>
        /\ last' = Call("add", directory, "True", "none")
        /\ logged' = {Log("DEBUG", "Directory already monitored")}
    ELSE IF res.err = "EACCES" THEN
        /\ monitored_dirs' = monitored_dirs \cup {directory}
        /\ UNCHANGED <<watch_descriptors, kernel>>
        /\ last' = Call("add", directory, "False", "add_watch")
        /\ logged' = {Log("ERROR", "Permission denied accessing")}
    ELSE IF res.err = "ENOSPC" THEN
        /\ monitored_dirs' = monitored_dirs \cup {directory}
        /\ UNCHANGED <<watch_descriptors, kernel>>
        /\ last' = Call("add", directory, "False", "add_watch")
        /\ logged' = {Log("ERROR", "Error adding watch")}
    ELSE
        /\ watch_descriptors' = Put(watch_descriptors, res.wd, directory)
        /\ monitored_dirs' = monitored_dirs \cup {directory}
        /\ kernel' = Put(kernel, res.wd, Inode(directory))
        /\ last' = Call("add", directory, "True", "add_watch")
        /\ logged' = {Log("INFO", "Added watch for directory")}

\* add_directory(directory), res being what inotify.add_watch does if called.
add_directory(directory, res) ==
    IF directory \notin isdir THEN
        /\ UNCHANGED <<watch_descriptors, monitored_dirs, kernel>>
        /\ last' = Call("add", directory, "False", "none")
        /\ logged' = {Log("WARNING", "Directory does not exist")}
    ELSE IF directory \in monitored_dirs THEN
        /\ UNCHANGED <<watch_descriptors, monitored_dirs, kernel>>
        /\ last' = Call("add", directory, "True", "none")
        /\ logged' = {Log("DEBUG", "Directory already monitored")}
    ELSE IF res.err = "EACCES" THEN
        /\ UNCHANGED <<watch_descriptors, monitored_dirs, kernel>>
        /\ last' = Call("add", directory, "False", "add_watch")
        /\ logged' = {Log("ERROR", "Permission denied accessing")}
    ELSE IF res.err = "ENOSPC" THEN
        /\ UNCHANGED <<watch_descriptors, monitored_dirs, kernel>>
        /\ last' = Call("add", directory, "False", "add_watch")
        /\ logged' = {Log("ERROR", "Error adding watch")}
    ELSE
        /\ watch_descriptors' = Put(watch_descriptors, res.wd, directory)
        /\ monitored_dirs' = monitored_dirs \cup {directory}
        /\ kernel' = Put(kernel, res.wd, Inode(directory))
        /\ last' = Call("add", directory, "True", "add_watch")
        /\ logged' = {Log("INFO", "Added watch for directory")}

\* remove_directory without "del self.watch_descriptors[wd_to_remove]".
remove_directory_keeps_entry(directory) ==
    LET found == {wd \in DOMAIN watch_descriptors : watch_descriptors[wd] = directory}
    IN  IF found = {} THEN
            /\ UNCHANGED <<watch_descriptors, monitored_dirs, kernel>>
            /\ last' = Call("remove", directory, "False", "none")
            /\ logged' = {Log("WARNING", "Directory not currently monitored")}
        ELSE \E wd_to_remove \in found :
            IF wd_to_remove \notin DOMAIN kernel THEN
                /\ UNCHANGED <<watch_descriptors, monitored_dirs, kernel>>
                /\ last' = Call("remove", directory, "False", "rm_watch")
                /\ logged' = {Log("ERROR", "Error removing watch")}
            ELSE
                /\ kernel' = Del(kernel, wd_to_remove)
                /\ UNCHANGED watch_descriptors
                /\ monitored_dirs' = monitored_dirs \ {directory}
                /\ last' = Call("remove", directory, "True", "rm_watch")
                /\ logged' = {Log("INFO", "Removed watch for directory")}

\* remove_directory(directory): the scan for the descriptor, then rm_watch,
\* which raises OSError (EINVAL) for a descriptor the kernel holds no watch for.
remove_directory(directory) ==
    LET found == {wd \in DOMAIN watch_descriptors : watch_descriptors[wd] = directory}
    IN  IF found = {} THEN
            /\ UNCHANGED <<watch_descriptors, monitored_dirs, kernel>>
            /\ last' = Call("remove", directory, "False", "none")
            /\ logged' = {Log("WARNING", "Directory not currently monitored")}
        ELSE \E wd_to_remove \in found :
            IF wd_to_remove \notin DOMAIN kernel THEN
                /\ UNCHANGED <<watch_descriptors, monitored_dirs, kernel>>
                /\ last' = Call("remove", directory, "False", "rm_watch")
                /\ logged' = {Log("ERROR", "Error removing watch")}
            ELSE
                /\ kernel' = Del(kernel, wd_to_remove)
                /\ watch_descriptors' = Del(watch_descriptors, wd_to_remove)
                /\ monitored_dirs' = monitored_dirs \ {directory}
                /\ last' = Call("remove", directory, "True", "rm_watch")
                /\ logged' = {Log("INFO", "Removed watch for directory")}

\* main's loop over monitor_dirs: one add_directory call, counted if it succeeds.
AddDirectory(directory, res) ==
    /\ pc = "idle"
    /\ added_count < MaxAdded
    /\ add_directory(directory, res)
    /\ added_count' = IF last'.ret = "True" THEN added_count + 1 ELSE added_count
    /\ UNCHANGED <<removed, isdir, output_file, pc, pending, cur, out, console, written,
                   closed, report>>
    /\ UNCHANGED <<stat, dvars, hvars>>

\* A caller of the class removes a directory before monitoring starts.
RemoveDirectory(directory) ==
    /\ pc = "idle"
    /\ remove_directory(directory)
    /\ removed' = IF DOMAIN watch_descriptors' = DOMAIN watch_descriptors THEN removed
                   ELSE CHOOSE wd \in DOMAIN watch_descriptors \ DOMAIN watch_descriptors' : TRUE
    /\ UNCHANGED <<isdir, output_file, added_count, pc, pending, cur, out, console,
                   written, closed, report>>
    /\ UNCHANGED <<stat, dvars, hvars>>

----------------------------------------------------------------------------
(* The filesystem under the monitor. Neither isdir nor the kernel's table  *)
(* is read once the loop has started, so these steps are taken before.     *)

\* A watched or unwatched directory is deleted: the kernel drops its watch.
FsDelete(p) ==
    /\ pc = "idle"
    /\ p \in Volatile \cap isdir
    /\ isdir' = isdir \ {p}
    /\ kernel' = [h \in {x \in DOMAIN kernel : kernel[x] # Inode(p)} |-> kernel[h]]
    /\ last' = Call("rmdir", p, "None", "none")
    /\ logged' = {}
    /\ UNCHANGED <<watch_descriptors, monitored_dirs, removed, output_file, added_count, pc,
                   pending, cur, out, console, written, closed, report>>
    /\ UNCHANGED <<stat, dvars, hvars>>

\* The directory is created again: a new inode, with no watch.
FsCreate(p) ==
    /\ pc = "idle"
    /\ p \in Volatile \ isdir
    /\ isdir' = isdir \cup {p}
    /\ last' = Call("mkdir", p, "None", "none")
    /\ logged' = {}
    /\ UNCHANGED <<watch_descriptors, monitored_dirs, kernel, removed, output_file,
                   added_count, pc, pending, cur, out, console, written, closed,
                   report>>
    /\ UNCHANGED <<stat, dvars, hvars>>

----------------------------------------------------------------------------
(* main's last branch and start_monitoring. *)

\* cleanup(): inotify.close(), which ends every watch of the instance.
cleanup ==
    /\ closed' = closed + 1
    /\ kernel' = EmptyDict

\* start_monitoring up to the loop: refuse when monitored_dirs is empty.
start_monitoring ==
    IF monitored_dirs = {} THEN
        /\ logged' = {Log("ERROR", "No directories to monitor!")}
        /\ pc' = "exited"
    ELSE
        /\ logged' = {Log("INFO", "Starting monitoring"), Log("INFO", "Monitored directories")}
        /\ pc' = "running"

\* main, added_count > 0: the summary line, then start_monitoring.
StartMonitoring ==
    /\ pc = "idle"
    /\ added_count > 0
    /\ report' = [kind |-> "added", count |-> added_count]
    /\ start_monitoring
    /\ last' = Call("start", None, "None", "none")
    /\ UNCHANGED <<watch_descriptors, monitored_dirs, kernel, removed, isdir, output_file,
                   added_count, pending, cur, out, console, written, closed>>
    /\ UNCHANGED <<stat, dvars, hvars>>

\* main, added_count = 0 after the last add_directory call of its loop:
\* "No directories could be added for monitoring".
NoDirectories ==
    /\ pc = "idle"
    /\ last.op = "add"
    /\ added_count = 0
    /\ report' = [kind |-> "nodirs", count |-> 0]
    /\ pc' = "exited"
    /\ last' = Call("main", None, "None", "none")
    /\ logged' = {}
    /\ UNCHANGED <<watch_descriptors, monitored_dirs, kernel, removed, isdir, output_file,
                   added_count, pending, cur, out, console, written, closed>>
    /\ UNCHANGED <<stat, dvars, hvars>>

\* main with --monitor when monitor_dirs is empty (discovery found no
\* directory, or --max-dirs is 0): no monitor is constructed. With --discover
\* the listing "Found 0 potential log directories" is all main has printed;
\* without it main prints the usage text. main returns, exit status 0.
NoCandidates(discover) ==
    /\ pc = "idle"
    /\ last.op = "init"
    /\ report' = [kind |-> IF discover THEN "found" ELSE "help", count |-> 0]
    /\ pc' = "returned"
    /\ last' = Call("main", None, "None", "none")
    /\ logged' = {}
    /\ UNCHANGED <<watch_descriptors, monitored_dirs, kernel, removed, isdir, output_file,
                   added_count, pending, cur, out, console, written, closed>>
    /\ UNCHANGED <<stat, dvars, hvars>>

\* The except clauses and the finally of start_monitoring.
StopLoop(why) ==
    /\ logged' = {IF why = "KeyboardInterrupt"
                  THEN Log("INFO", "Monitoring stopped by user")
                  ELSE Log("ERROR", "Error during monitoring"),
                  Log("INFO", "Cleanup completed")}
    /\ cleanup
    /\ pc' = "stopped"

\* inotify.read() returns a batch of n events.
Read(n) ==
    /\ pc = "running"
    /\ pending' = n
    /\ pc' = "processing"
    /\ last' = Call("read", None, "None", "read")
    /\ logged' = {}
    /\ UNCHANGED <<watch_descriptors, monitored_dirs, kernel, removed, isdir, output_file,
                   added_count, cur, out, console, written, closed, report>>
    /\ UNCHANGED <<stat, dvars>>

\* inotify.read() raises: Ctrl-C while blocked, or the instance has failed.
ReadRaises(why) ==
    /\ pc = "running"
    /\ StopLoop(why)
    /\ last' = Call("read", None, why, "read")
    /\ UNCHANGED <<watch_descriptors, monitored_dirs, removed, isdir, output_file, added_count,
                   pending, cur, out, console, written, report>>
    /\ UNCHANGED <<stat, dvars, hvars>>

\* Ctrl-C while a batch is being handled: KeyboardInterrupt is raised
\* between two statements of the for loop.
Interrupt ==
    /\ pc = "processing"
    /\ StopLoop("KeyboardInterrupt")
    /\ last' = Call("interrupt", None, "KeyboardInterrupt", "none")
    /\ UNCHANGED <<watch_descriptors, monitored_dirs, removed, isdir, output_file, added_count,
                   pending, cur, out, console, written, report>>
    /\ UNCHANGED <<stat, dvars, hvars>>

\* One turn of the for loop: _process_event, then _output_event if it
\* returned an event. An exception out of _output_event ends the loop.
ProcessEvent(ev, fstate, printOk, fileOk) ==
    /\ pc = "processing"
    /\ pending > 0
    /\ cur' = Some(ev)
    /\ out' = process_event(watch_descriptors, ev, fstate)
    /\ IF out' = Nothing THEN
            /\ last' = Call("event", None, "None", "none")
            /\ console' = Nothing
            /\ written' = Nothing
            /\ logged' = {}
            /\ pending' = pending - 1
            /\ pc' = IF pending' = 0 THEN "running" ELSE "processing"
            /\ UNCHANGED <<kernel, closed>>
       ELSE LET o == output_event(out'[1], output_file, printOk, fileOk)
            IN  /\ last' = Call("event", None, "None", o.sys)
                /\ console' = o.console
                /\ written' = o.written
                /\ IF o.raised THEN
                        /\ StopLoop("Exception")
                        /\ UNCHANGED pending
                   ELSE
                        /\ logged' = o.logged
                        /\ pending' = pending - 1
                        /\ pc' = IF pending' = 0 THEN "running" ELSE "processing"
                        /\ UNCHANGED <<kernel, closed>>
    /\ UNCHANGED <<watch_descriptors, monitored_dirs, removed, isdir, output_file, added_count,
                   report>>
    /\ stat' = Some(fstate)
    /\ UNCHANGED dvars

----------------------------------------------------------------------------

Next ==
    \/ \E d \in Paths : \E res \in AddWatchResults(d) : AddDirectory(d, res)
    \/ \E d \in Paths : RemoveDirectory(d)
    \/ \E p \in Volatile : FsDelete(p)
    \/ \E p \in Volatile : FsCreate(p)
    \/ StartMonitoring
    \/ NoDirectories
    \/ \E discover \in BOOLEAN : NoCandidates(discover)
    \/ \E n \in 1..MaxBatch : Read(n) /\ UNCHANGED hvars
    \/ \E why \in {"KeyboardInterrupt", "Exception"} : ReadRaises(why)
    \/ Interrupt
    \/ \E ev \in RawEvents, fstate \in FileStates, io \in SinkStates :
            ProcessEvent(ev, fstate, io.printOk, io.fileOk) /\ UNCHANGED hvars

Spec == Init /\ [][Next]_vars

----------------------------------------------------------------------------
(* The translation of every mask. The monitor is in its loop with one      *)
(* watch, on "/var/log/app", and has read a batch of one event; the event  *)
(* is any combination of the six classes, IN_IGNORED and IN_ISDIR, on any  *)
(* descriptor. No further batch arrives.                                   *)

Bits == {IN_MODIFY, IN_CLOSE_WRITE, IN_MOVED_FROM, IN_MOVED_TO, IN_CREATE, IN_DELETE,
         IN_IGNORED, IN_ISDIR}

RECURSIVE SumOf(_)
SumOf(S) == IF S = {} THEN 0 ELSE LET x == CHOOSE y \in S : TRUE IN x + SumOf(S \ {x})

AllMasks == {SumOf(S) : S \in SUBSET Bits}
AllRawEvents == [wd : Handles, mask : AllMasks, name : Names]

\* The state of Spec after add_directory("/var/log/app"), StartMonitoring and Read(1).
InBatch ==
    /\ watch_descriptors = Put(EmptyDict, 1, "/var/log/app")
    /\ monitored_dirs = {"/var/log/app"}
    /\ kernel = Put(EmptyDict, 1, "/var/log/app")
    /\ removed = 0
    /\ isdir = InitialDirs
    /\ output_file \in {None, "events.json"}
    /\ added_count = 1
    /\ pc = "processing"
    /\ pending = 1
    /\ cur = Nothing
    /\ out = Nothing
    /\ console = Nothing
    /\ written = Nothing
    /\ closed = 0
    /\ report = [kind |-> "added", count |-> 1]
    /\ last = Call("read", None, "None", "read")
    /\ logged = {}
    /\ stat = Nothing
    /\ NoDiscovery
    /\ NoHistory

NextTranslate ==
    \/ \E ev \in AllRawEvents, fstate \in FileStates, io \in SinkStates :
            ProcessEvent(ev, fstate, io.printOk, io.fileOk) /\ UNCHANGED hvars
    \/ \E why \in {"KeyboardInterrupt", "Exception"} : ReadRaises(why)
    \/ Interrupt

SpecTranslate == InBatch /\ [][NextTranslate]_vars

----------------------------------------------------------------------------
(* The order of the events. The monitor is in its loop with one watch, on  *)
(* "/var/log/app"; every other descriptor names a watch that is gone. A    *)
(* batch is the sequence of events inotify.read() returned, and the loop   *)
(* takes them from its head.                                               *)

OrderMasks == {IN_CREATE, IN_MODIFY}
OrderEvents == [wd : Handles, mask : OrderMasks, name : Names]
Batches == UNION {[1..n -> OrderEvents] : n \in 1..MaxBatch}

\* The state of Spec after add_directory("/var/log/app") and StartMonitoring.
InLoop ==
    /\ watch_descriptors = Put(EmptyDict, 1, "/var/log/app")
    /\ monitored_dirs = {"/var/log/app"}
    /\ kernel = Put(EmptyDict, 1, "/var/log/app")
    /\ removed = 0
    /\ isdir = InitialDirs
    /\ output_file \in {None, "events.json"}
    /\ added_count = 1
    /\ pc = "running"
    /\ pending = 0
    /\ cur = Nothing
    /\ out = Nothing
    /\ console = Nothing
    /\ written = Nothing
    /\ closed = 0
    /\ report = [kind |-> "added", count |-> 1]
    /\ last = Call("start", None, "None", "none")
    /\ logged = {Log("INFO", "Starting monitoring"), Log("INFO", "Monitored directories")}
    /\ stat = Nothing
    /\ NoDiscovery
    /\ NoHistory

\* events = self.inotify.read()
ReadBatch(events) ==
    /\ Len(delivered) + Len(events) <= MaxDelivered
    /\ Read(Len(events))
    /\ batch' = events
    /\ delivered' = delivered \o events
    /\ UNCHANGED emitted

\* "for event in reversed(events)": the loop takes the batch from its end.
HandleNext_reversed(fstate, printOk, fileOk) ==
    /\ batch # <<>>
    /\ ProcessEvent(batch[Len(batch)], fstate, printOk, fileOk)
    /\ batch' = IF pc' = "stopped" THEN batch ELSE SubSeq(batch, 1, Len(batch) - 1)
    /\ emitted' = IF console' # Nothing THEN Append(emitted, console'[1]) ELSE emitted
    /\ UNCHANGED delivered

\* for event in events: the next event of the batch is handled; an exception
\* leaves the rest of the batch where it is.
HandleNext(fstate, printOk, fileOk) ==
    /\ batch # <<>>
    /\ ProcessEvent(Head(batch), fstate, printOk, fileOk)
    /\ batch' = IF pc' = "stopped" THEN batch ELSE Tail(batch)
    /\ emitted' = IF console' # Nothing THEN Append(emitted, console'[1]) ELSE emitted
    /\ UNCHANGED delivered

NextOrder ==
    \/ \E events \in Batches : ReadBatch(events)
    \/ \E fstate \in FileStates, io \in SinkStates : HandleNext(fstate, io.printOk, io.fileOk)
    \/ \E why \in {"KeyboardInterrupt", "Exception"} : ReadRaises(why)
    \/ Interrupt

SpecOrder == InLoop /\ [][NextOrder]_vars

----------------------------------------------------------------------------
(* Discovery: the filesystem LogDirectoryDiscovery walks. A path is the    *)
(* sequence of its components; the first is "/var/log", "/opt" or          *)
(* "/tmp/logs".                                                            *)

max_depth == 2

\* The directories, by inode.
Dirs == {"log", "nginx", "sites", "deep", "deeper", "app", "applogs", "opt", "svc", "svclogs"}

Roots == ("/var/log" :> "log") @@ ("/opt" :> "opt")

\* The entries of directory d that os.path.isdir holds of: a directory, or a
\* symbolic link to one. With f.cyclic, /var/log/nginx/sites/loop links to
\* /var/log.
SubDirs(f, d) ==
    CASE d = "log" -> ("nginx" :> "nginx") @@ ("app" :> "app")
      [] d = "nginx" -> ("sites" :> "sites")
      [] d = "sites" -> IF f.cyclic THEN ("deep" :> "deep") @@ ("loop" :> "log")
                        ELSE ("deep" :> "deep")
      [] d = "deep" -> ("deeper" :> "deeper")
      [] d = "app" -> ("logs" :> "applogs")
      [] d = "opt" -> ("svc" :> "svc")
      [] d = "svc" -> ("logs" :> "svclogs")
      [] OTHER -> EmptyDict

\* The file of directory d that looks like a log file, if f.haslogs gives d one.
LogFileOf ==
    ("sites" :> "app.out") @@ ("deep" :> "ACCESS.1") @@ ("deeper" :> "x.log")
        @@ ("app" :> "catalog.dat") @@ ("applogs" :> "audit")

\* The regular files of directory d.
Files(f, d) ==
    (IF d = "log" THEN {"syslog"} ELSE {})
        \cup (IF d \in {"app", "deep"} THEN {"notes.md"} ELSE {})
        \cup (IF d \in f.haslogs THEN {LogFileOf[d]} ELSE {})

\* The filesystems discovery is run on: which directories hold a log file,
\* which cannot be listed, and whether the symbolic link is there.
FileSystems ==
    [cyclic : BOOLEAN,
     haslogs : {H \cup {"deeper"} : H \in SUBSET {"sites", "deep", "app", "applogs"}},
     denied : {{}, {"log"}, {"nginx"}, {"app"}, {"sites"}, {"opt"}}]

\* The inode a path leads to: a set of one directory, or of none when the
\* path names no directory.
RECURSIVE Resolve(_, _)
Resolve(f, path) ==
    IF Len(path) = 1 THEN {Roots[r] : r \in {path[1]} \cap DOMAIN Roots}
    ELSE {SubDirs(f, parent)[path[Len(path)]] :
            parent \in {d \in Resolve(f, SubSeq(path, 1, Len(path) - 1)) :
                            path[Len(path)] \in DOMAIN SubDirs(f, d)}}

\* os.path.isdir, os.path.isfile, os.path.exists
IsDir(f, path) == Resolve(f, path) # {}
IsFile(f, path) ==
    /\ Len(path) > 1
    /\ \E parent \in Resolve(f, SubSeq(path, 1, Len(path) - 1)) :
            path[Len(path)] \in Files(f, parent)
Exists(f, path) == IsDir(f, path) \/ IsFile(f, path)

\* os.listdir(path) of a directory raises PermissionError, or returns the names.
ListDenied(f, path) == \E d \in Resolve(f, path) : d \in f.denied
ListDir(f, path) == UNION {DOMAIN SubDirs(f, d) \cup Files(f, d) : d \in Resolve(f, path)}

\* os.path.join(directory, item)
PathJoin(directory, item) == Append(directory, item)

IsPrefix(s, p) == Len(s) <= Len(p) /\ SubSeq(p, 1, Len(s)) = s

----------------------------------------------------------------------------
(* Names that look like log files. A name is read as the sequence of its   *)
(* parts: the last part of a name with a dot is its extension.             *)

LOG_EXTENSIONS == {".log", ".txt", ".out", ".err", ".access", ".error", ".debug", ".info"}
Keywords == {"log", "access", "error", "debug", "audit"}

Parts ==
    ("syslog" :> <<"sys", "log">>) @@ ("notes.md" :> <<"notes", ".md">>)
        @@ ("app.out" :> <<"app", ".out">>) @@ ("ACCESS.1" :> <<"ACCESS", ".1">>)
        @@ ("x.log" :> <<"x", ".log">>) @@ ("catalog.dat" :> <<"cata", "log", ".dat">>)
        @@ ("audit" :> <<"audit">>) @@ ("nginx" :> <<"nginx">>) @@ ("app" :> <<"app">>)
        @@ ("sites" :> <<"sites">>) @@ ("deep" :> <<"deep">>) @@ ("deeper" :> <<"deeper">>)
        @@ ("logs" :> <<"log", "s">>) @@ ("loop" :> <<"loop">>) @@ ("svc" :> <<"svc">>)

\* str.lower, part by part.
Lower(part) == IF part = "ACCESS" THEN "access" ELSE part

\* item.endswith(ext) for some ext of LOG_EXTENSIONS, or a keyword in item.lower()
looks_like_log(item) ==
    \/ Parts[item][Len(Parts[item])] \in LOG_EXTENSIONS
    \/ \E i \in 1..Len(Parts[item]) : Lower(Parts[item][i]) \in Keywords

\* _contains_log_files without the os.path.isfile test: an entry of any kind counts.
contains_log_files_any_entry(f, directory) ==
    IF ListDenied(f, directory) THEN FALSE
    ELSE \E item \in ListDir(f, directory) : looks_like_log(item)

\* _contains_log_files: False when the listing is refused.
contains_log_files(f, directory) ==
    IF ListDenied(f, directory) THEN FALSE
    ELSE \E item \in ListDir(f, directory) :
            IsFile(f, PathJoin(directory, item)) /\ looks_like_log(item)

----------------------------------------------------------------------------
(* discover_log_directories and _discover_nested_log_dirs. *)

\* The entries of STANDARD_LOG_DIRS that name something of this filesystem,
\* in the order of the list.
STANDARD_LOG_DIRS ==
    << <<"/var/log">>, <<"/var/log", "nginx">>, <<"/var/log", "syslog">>,
       <<"/opt", "*", "logs">>, <<"/tmp/logs">> >>

\* "current_depth > max_depth" in place of ">=".
depth_reached_late(current_depth) == current_depth > max_depth

\* if current_depth >= max_depth: return
depth_reached(current_depth) == current_depth >= max_depth

\* No try in _discover_nested_log_dirs: PermissionError leaves every call in
\* progress, up to the except of discover_log_directories.
on_permission_error_unwinds(stk) == <<>>

\* except PermissionError: pass. The call whose listing was refused returns
\* to its caller; the calls in progress stay.
on_permission_error(stk) == stk

\* found_dirs.add with a limit on the size of the set.
add_found_capped(found_dirs, item_path) ==
    IF Cardinality(found_dirs) >= 4 THEN found_dirs ELSE found_dirs \cup {item_path}

\* found_dirs.add(item_path)
add_found(found_dirs, item_path) == found_dirs \cup {item_path}

\* _discover_nested_log_dirs(directory, ..., current_depth) up to its for
\* loop, on the calls stk in progress: the calls in progress after it.
discover_nested_log_dirs(stk, directory, current_depth) ==
    IF depth_reached(current_depth) THEN stk
    ELSE IF ListDenied(fs, directory) THEN on_permission_error(stk)
    ELSE Append(stk, [directory |-> directory, current_depth |-> current_depth,
                      items |-> ListDir(fs, directory)])

\* The path that call lists, if it gets as far as os.listdir.
nested_lists(directory, current_depth) ==
    IF depth_reached(current_depth) THEN {} ELSE {directory}

\* One entry of STANDARD_LOG_DIRS: a pattern with '*' adds <parent>/<item>/logs
\* for every item of the parent, any other entry is added if it is a directory.
StandardDir ==
    /\ dpc = "standard"
    /\ LET log_dir == STANDARD_LOG_DIRS[next_seed]
           star == {i \in 1..Len(log_dir) : log_dir[i] = "*"}
           parent_dir == SubSeq(log_dir, 1, (CHOOSE i \in star : TRUE) - 1)
           found == IF star # {} THEN
                        IF Exists(fs, parent_dir) /\ ~ListDenied(fs, parent_dir) THEN
                            {PathJoin(PathJoin(parent_dir, item), "logs") :
                                item \in {i \in ListDir(fs, parent_dir) :
                                    IsDir(fs, PathJoin(PathJoin(parent_dir, i), "logs"))}}
                        ELSE {}
                    ELSE IF IsDir(fs, log_dir) THEN {log_dir} ELSE {}
       IN  /\ log_dirs' = log_dirs \cup found
           /\ IF next_seed < Len(STANDARD_LOG_DIRS) THEN
                    /\ next_seed' = next_seed + 1
                    /\ UNCHANGED <<dpc, seeds, todo>>
              ELSE
                    /\ dpc' = "nested"
                    /\ seeds' = log_dirs'
                    /\ todo' = log_dirs'
                    /\ UNCHANGED next_seed
    /\ UNCHANGED <<fs, stack, listed, run, first>>

\* for log_dir in list(log_dirs): the walk from one more directory of the list.
NestedFrom(log_dir) ==
    /\ dpc = "nested"
    /\ stack = <<>>
    /\ log_dir \in todo
    /\ todo' = todo \ {log_dir}
    /\ stack' = discover_nested_log_dirs(<<>>, log_dir, 0)
    /\ listed' = listed \cup nested_lists(log_dir, 0)
    /\ UNCHANGED <<fs, log_dirs, dpc, next_seed, seeds, run, first>>

\* The items the for loop of the innermost call has not reached.
TopItems == IF stack = <<>> THEN {} ELSE stack[Len(stack)].items

\* One turn of the for loop of the innermost call, with the item os.listdir
\* gives next: a directory is added if it holds log files and is walked in
\* any case.
NestedItem(item) ==
    /\ dpc = "nested"
    /\ stack # <<>>
    /\ LET top == stack[Len(stack)]
           item_path == PathJoin(top.directory, item)
           rest == [stack EXCEPT ![Len(stack)].items = @ \ {item}]
       IN  /\ item \in top.items
           /\ IF IsDir(fs, item_path) THEN
                    /\ log_dirs' = IF contains_log_files(fs, item_path)
                                   THEN add_found(log_dirs, item_path) ELSE log_dirs
                    /\ stack' = discover_nested_log_dirs(rest, item_path, top.current_depth + 1)
                    /\ listed' = listed \cup {item_path}
                                    \cup nested_lists(item_path, top.current_depth + 1)
              ELSE
                    /\ stack' = rest
                    /\ UNCHANGED <<log_dirs, listed>>
    /\ UNCHANGED <<fs, dpc, next_seed, seeds, todo, run, first>>

\* The for loop of the innermost call is over: it returns.
NestedReturn ==
    /\ dpc = "nested"
    /\ stack # <<>>
    /\ stack[Len(stack)].items = {}
    /\ stack' = SubSeq(stack, 1, Len(stack) - 1)
    /\ UNCHANGED <<fs, log_dirs, dpc, next_seed, seeds, todo, listed, run, first>>

\* return log_dirs
DiscoverReturn ==
    /\ dpc = "nested"
    /\ stack = <<>>
    /\ todo = {}
    /\ dpc' = "done"
    /\ first' = IF run = 1 THEN log_dirs ELSE first
    /\ UNCHANGED <<fs, log_dirs, next_seed, seeds, todo, stack, listed, run>>

\* discover_log_directories is called a second time on the same filesystem.
DiscoverAgain ==
    /\ dpc = "done"
    /\ run = 1
    /\ run' = 2
    /\ log_dirs' = {}
    /\ dpc' = "standard"
    /\ next_seed' = 1
    /\ seeds' = {}
    /\ todo' = {}
    /\ listed' = {}
    /\ UNCHANGED <<fs, stack, first>>

\* The variables of the monitor, which main constructs after discovery.
mvars == <<watch_descriptors, monitored_dirs, kernel, removed, isdir, output_file, added_count,
           pc, pending, cur, out, console, written, closed, report, last, logged, stat>>

InitDiscover ==
    /\ watch_descriptors = EmptyDict
    /\ monitored_dirs = {}
    /\ kernel = EmptyDict
    /\ removed = 0
    /\ isdir = InitialDirs
    /\ output_file = None
    /\ added_count = 0
    /\ pc = "idle"
    /\ pending = 0
    /\ cur = Nothing
    /\ out = Nothing
    /\ console = Nothing
    /\ written = Nothing
    /\ closed = 0
    /\ report = NoReport
    /\ last = Call("init", None, "None", "none")
    /\ logged = {}
    /\ stat = Nothing
    /\ NoHistory
    /\ fs \in FileSystems
    /\ log_dirs = {}
    /\ dpc = "standard"
    /\ next_seed = 1
    /\ seeds = {}
    /\ todo = {}
    /\ stack = <<>>
    /\ listed = {}
    /\ run = 1
    /\ first = {}

NextDiscover ==
    \/ StandardDir /\ UNCHANGED <<mvars, hvars>>
    \/ \E log_dir \in todo : NestedFrom(log_dir) /\ UNCHANGED <<mvars, hvars>>
    \/ \E item \in TopItems : NestedItem(item) /\ UNCHANGED <<mvars, hvars>>
    \/ NestedReturn /\ UNCHANGED <<mvars, hvars>>
    \/ DiscoverReturn /\ UNCHANGED <<mvars, hvars>>
    \/ DiscoverAgain /\ UNCHANGED <<mvars, hvars>>

SpecDiscover == InitDiscover /\ [][NextDiscover]_vars

\* The walk is one control flow: it takes its next step whenever it has one.
FairSpecDiscover == SpecDiscover /\ WF_vars(NextDiscover)

----------------------------------------------------------------------------
(* The registry. *)

\* C1: after any sequence of add_directory and remove_directory calls, with
\* the kernel choosing the descriptor of each subscription, the mapping
\* wd -> path maps no descriptor to two paths and no path to two descriptors.
C1_Bijection ==
    /\ \A wd \in DOMAIN watch_descriptors :
            Cardinality({p \in Paths : watch_descriptors[wd] = p}) = 1
    /\ \A p \in Paths :
            Cardinality({wd \in DOMAIN watch_descriptors : watch_descriptors[wd] = p}) <= 1

\* C1 witness: after an add and a removal, add_directory has subscribed a
\* second directory and the kernel has answered with the descriptor it had
\* issued before.
C1_Witness ==
    /\ last.op = "add"
    /\ last.sys = "add_watch"
    /\ last.ret = "True"
    /\ removed # 0
    /\ removed \in DOMAIN watch_descriptors

C3_FailedAddChangesNothing ==
    [][(last'.op = "add")
       => (/\ last'.path \notin isdir => last'.ret = "False"
           /\ last'.ret = "False" =>
                /\ registry' = registry
                /\ Cardinality(DOMAIN watch_descriptors') = Cardinality(DOMAIN watch_descriptors)
                /\ Cardinality(monitored_dirs') = Cardinality(monitored_dirs))]_vars

\* C3 witness: add_directory of a regular file has failed on a registry that
\* holds a watch; C3_WitnessRefused: a refused subscription has failed likewise.
C3_Witness ==
    /\ last = Call("add", "/etc/hosts", "False", "none")
    /\ watch_descriptors # EmptyDict

C3_WitnessRefused ==
    /\ last.op = "add"
    /\ last.ret = "False"
    /\ last.sys = "add_watch"
    /\ Log("ERROR", "Permission denied accessing") \in logged
    /\ watch_descriptors # EmptyDict

\* C4: remove_directory of a path that was never added returns an outcome
\* that is no error, so one that differs from what a failed removal returns;
\* it makes no rm_watch call and leaves the registry and its size as they were.
FailedRemoval(call) ==
    /\ call.op = "remove"
    /\ call.sys = "rm_watch"
    /\ call.path \in Values(watch_descriptors)

C4_NotWatchedIsNoError ==
    [][(/\ last'.op = "remove"
        /\ last'.path \notin Values(watch_descriptors)
        /\ last'.path \notin monitored_dirs)
       => (/\ last'.sys = "none"
           /\ registry' = registry
           /\ FailedRemoval(last) => last'.ret # last.ret)]_vars

\* C5: once remove_directory(p) has returned True, _process_event of a raw
\* event with the descriptor p was watched under returns None; and whenever
\* the loop handles an event whose descriptor is not in watch_descriptors,
\* _process_event returns None, nothing is printed or written, and the loop
\* goes on.
C5_StaleHandleIsDropped ==
    /\ []((last.op = "event" /\ cur[1].wd \notin DOMAIN watch_descriptors)
            => (/\ out = Nothing
                /\ console = Nothing
                /\ written = Nothing
                /\ pc \in {"running", "processing"}
                /\ closed = 0))
    /\ [][(last'.op = "remove" /\ last'.ret = "True")
          => \A wd \in DOMAIN watch_descriptors :
                watch_descriptors[wd] = last'.path =>
                    \A ev \in RawEvents, fstate \in FileStates :
                        ev.wd = wd => process_event(watch_descriptors', ev, fstate) = Nothing]_vars

\* C5 witness: the loop has handled an event that carries the descriptor of
\* the watch remove_directory removed.
C5_Witness ==
    /\ last.op = "event"
    /\ removed # 0
    /\ cur[1].wd = removed
    /\ removed \notin DOMAIN watch_descriptors
    /\ out = Nothing
    /\ pc = "processing"

----------------------------------------------------------------------------
(* The translation and the loop. *)

\* The six classes in their declared order, and the bit of each.
Vocabulary == <<"CREATE", "MODIFY", "DELETE", "MOVED_TO", "MOVED_FROM", "CLOSE_WRITE">>
ClassBit == <<IN_CREATE, IN_MODIFY, IN_DELETE, IN_MOVED_TO, IN_MOVED_FROM, IN_CLOSE_WRITE>>

SetClasses(mask) == {i \in DOMAIN Vocabulary : HasFlag(mask, ClassBit[i])}
Rank(tag) == CHOOSE i \in DOMAIN Vocabulary : Vocabulary[i] = tag

\* et names exactly the classes set in mask, each once, in the declared order,
\* with the delimiter between them; or is UNKNOWN when no class is set.
ListsExactly(et, mask) ==
    LET n == Cardinality(SetClasses(mask))
    IN  IF n = 0 THEN et = <<"UNKNOWN">>
        ELSE /\ Len(et) = 2 * n - 1
             /\ \A k \in 1..(n - 1) : et[2 * k] = "|"
             /\ \A k \in 1..n :
                    /\ \E i \in SetClasses(mask) : et[2 * k - 1] = Vocabulary[i]
                    /\ k < n => Rank(et[2 * k - 1]) < Rank(et[2 * k + 1])

\* C6: for every mask of a raw event on a watched descriptor, event_type lists
\* exactly the classes of CREATE, MODIFY, DELETE, MOVED_TO, MOVED_FROM,
\* CLOSE_WRITE whose bit is set, in that order, and is UNKNOWN exactly when
\* none of the six bits is set.
C6_EventTypeListsSetClasses ==
    (cur # Nothing /\ out # Nothing)
        => (/\ ListsExactly(out[1].event_type, cur[1].mask)
            /\ out[1].event_type = <<"UNKNOWN">> <=> SetClasses(cur[1].mask) = {})

\* C6 witness: the event of mask CREATE|CLOSE_WRITE|ISDIR on "/var/log/app",
\* name "out.log", size 128, has been translated.
C6_Witness ==
    /\ cur = Some([wd |-> 1, mask |-> IN_CREATE + IN_CLOSE_WRITE + IN_ISDIR, name |-> "out.log"])
    /\ out = Some([path |-> "/var/log/app", filename |-> "out.log",
                   event_type |-> <<"CREATE", "|", "CLOSE_WRITE">>, size |-> Some(128)])

\* C6 second witness: an event with none of the six bits has been translated.
C6_WitnessUnknown ==
    /\ cur = Some([wd |-> 1, mask |-> IN_IGNORED, name |-> "out.log"])
    /\ out # Nothing
    /\ out[1].event_type = <<"UNKNOWN">>

\* C7: on every exit path of the monitor (interrupt, failure of the read,
\* start with no watch, no directory subscribed) the inotify instance that
\* was opened is closed exactly once.
C7_ClosedExactlyOnce ==
    /\ closed <= 1
    /\ pc \in {"stopped", "exited"} => closed = 1

\* C8: start_monitoring on a registry that holds no watch logs an error and
\* returns without reading and without emitting; the loop is entered only
\* after an add_directory that succeeded.
C8_NoLoopWithoutWatch ==
    /\ [](pc = "exited" => (cur = Nothing /\ console = Nothing /\ written = Nothing))
    /\ [](pc \in {"running", "processing"} => added_count > 0)
    /\ [][(last'.op = "start" /\ watch_descriptors = EmptyDict)
          => (/\ pc' = "exited"
              /\ Log("ERROR", "No directories to monitor!") \in logged')]_vars

\* C9: handling one event never ends the loop, whatever fails in translating
\* or emitting it; the loop ends only by an interrupt or by inotify.read()
\* failing.
C9_OneEventNeverEndsLoop ==
    /\ last.op = "event" => pc \in {"running", "processing"}
    /\ pc = "stopped" => last.op \in {"read", "interrupt"}

\* C10: when the append to the output file fails, the event is on the console
\* already, the failure is logged, and the loop goes on with the rest of the
\* batch or with the next read; the inotify instance stays open.
C10_FileFailureDoesNotStop ==
    [][(last'.op = "event" /\ last'.sys = "write_raised")
       => (/\ out' # Nothing
           /\ console' = Some(ConsoleLine(out'[1]))
           /\ written' = Nothing
           /\ Log("ERROR", "Error writing to output file") \in logged'
           /\ pending' = pending - 1
           /\ pc' = (IF pending' > 0 THEN "processing" ELSE "running")
           /\ closed' = closed)]_vars

\* C10 witness: the append has failed for an event and the batch has more.
C10_Witness ==
    /\ last = Call("event", None, "None", "write_raised")
    /\ output_file # None
    /\ console # Nothing
    /\ pc = "processing"
    /\ pending > 0

----------------------------------------------------------------------------
(* The end of the loop and the registry after it. *)

\* C11: an interrupt ends the loop only between two batches: when the loop
\* has stopped by KeyboardInterrupt, no event of the batch read last is left
\* unhandled.
C11_InterruptBetweenBatches ==
    (pc = "stopped" /\ last.ret = "KeyboardInterrupt") => pending = 0

\* C12: once the loop has stopped and cleanup has run, the registry holds no
\* entry: watch_descriptors and monitored_dirs are empty, and _process_event
\* resolves no descriptor.
C12_RegistryEmptyAfterStop ==
    pc = "stopped" =>
        /\ Cardinality(DOMAIN watch_descriptors) = 0
        /\ monitored_dirs = {}
        /\ \A ev \in RawEvents, fstate \in FileStates :
                process_event(watch_descriptors, ev, fstate) = Nothing

\* C19: in every state monitored_dirs is the set of paths that are values of
\* watch_descriptors, and the two have the same size.
C19_StructuresAgree ==
    /\ monitored_dirs = Values(watch_descriptors)
    /\ Cardinality(monitored_dirs) = Cardinality(DOMAIN watch_descriptors)

----------------------------------------------------------------------------
(* The size of the file of an event. *)

\* C17: when the loop handles an event of a watched descriptor and the file
\* under directory/name does not exist, or exists but its size cannot be read
\* (it was deleted after the existence test, or getsize fails otherwise),
\* _process_event returns a LogEvent of that directory and name with no size,
\* and the step ends the loop only if the print of the event raises.
C17_SizeIsBestEffort ==
    (/\ last.op = "event"
     /\ cur[1].wd \in DOMAIN watch_descriptors
     /\ stat[1].kind # "file")
        => (/\ out # Nothing
            /\ out[1].path = watch_descriptors[cur[1].wd]
            /\ out[1].filename = cur[1].name
            /\ out[1].size = Nothing
            /\ pc = "stopped" => last.sys = "print_raised")

\* C17 witness: an event of a watched directory has been handled whose file
\* vanished between os.path.exists and os.path.getsize; the loop goes on.
C17_Witness ==
    /\ last.op = "event"
    /\ cur[1].wd \in DOMAIN watch_descriptors
    /\ stat = Some([kind |-> "unreadable", size |-> 0])
    /\ out # Nothing
    /\ out[1].size = Nothing
    /\ pc = "processing"

\* C17 second witness: the file of the event does not exist.
C17_WitnessAbsent ==
    /\ last.op = "event"
    /\ cur[1].wd \in DOMAIN watch_descriptors
    /\ stat = Some([kind |-> "absent", size |-> 0])
    /\ out # Nothing
    /\ out[1].size = Nothing

----------------------------------------------------------------------------
(* main's summary. *)

\* C18: while the loop runs, main has printed the number of add_directory
\* calls that succeeded, and at least one did; and when main is over with no
\* directory subscribed (no candidate at all, or every add_directory failed),
\* it has reported that as an error: by its "No directories could be added"
\* line or by a logged error.
C18_SummaryBeforeLoop ==
    /\ pc \in {"running", "processing"} =>
            (report = [kind |-> "added", count |-> added_count] /\ added_count > 0)
    /\ (pc \in {"exited", "returned", "stopped"} /\ added_count = 0) =>
            \/ report.kind = "nodirs"
            \/ \E l \in logged : l.level = "ERROR"

----------------------------------------------------------------------------
(* Discovery. *)

\* The directory paths exactly k levels below s, and those of them the walk
\* from s can reach: every directory from s down to the parent can be listed.
RECURSIVE Below(_, _)
Below(s, k) ==
    IF k = 0 THEN {s}
    ELSE UNION {{PathJoin(p, n) : n \in {i \in ListDir(fs, p) : IsDir(fs, PathJoin(p, i))}} :
                    p \in Below(s, k - 1)}

RECURSIVE ReachBelow(_, _)
ReachBelow(s, k) ==
    IF k = 0 THEN {s}
    ELSE UNION {{PathJoin(p, n) : n \in {i \in ListDir(fs, p) : IsDir(fs, PathJoin(p, i))}} :
                    p \in {q \in ReachBelow(s, k - 1) : ~ListDenied(fs, q)}}

\* The directory has an immediate regular file whose name looks like a log file's.
HasLogFile(p) == \E d \in Resolve(fs, p) : \E name \in Files(fs, d) : looks_like_log(name)

WithinDepth(p) == \E s \in seeds : IsPrefix(s, p) /\ Len(p) - Len(s) <= max_depth

\* C13: the nested walk lists and adds only paths at most max_depth = 2
\* levels below a directory it started from; every call in progress is fewer
\* than max_depth levels below the directory the walk started from, so at
\* most max_depth calls are in progress; and every call of discovery returns,
\* on every filesystem, the one with the symbolic link back to /var/log
\* included.
C13_DepthBoundAndTermination ==
    /\ [](dpc \in {"nested", "done"} => \A p \in listed \cup log_dirs : WithinDepth(p))
    /\ [](/\ Len(stack) <= max_depth
          /\ \A i \in 1..Len(stack) :
                /\ stack[i].current_depth < max_depth
                /\ IsPrefix(stack[1].directory, stack[i].directory)
                /\ Len(stack[i].directory) - Len(stack[1].directory) = stack[i].current_depth)
    /\ (dpc = "standard" ~> dpc = "done")

\* C13 witness: discovery has returned on the filesystem with the link; the
\* link, two levels below /var/log/nginx, was listed, and /var/log/nginx/sites
\* /deep/deeper, which holds a log file, was not.
C13_Witness ==
    /\ fs.cyclic
    /\ dpc = "done"
    /\ <<"/var/log", "nginx", "sites", "loop">> \in listed
    /\ HasLogFile(<<"/var/log", "nginx", "sites", "deep", "deeper">>)
    /\ <<"/var/log", "nginx", "sites", "deep", "deeper">> \notin listed \cup log_dirs

\* C14 as stated: what discovery returns holds directories only, and a
\* directory 1 or 2 levels below a directory of the first loop is returned if
\* and only if it is one of the first loop itself or has an immediate file
\* that looks like a log file.
C14_ExactlyTheLogHolders ==
    dpc = "done" =>
        /\ \A p \in log_dirs : IsDir(fs, p) /\ ~IsFile(fs, p)
        /\ \A s \in seeds : \A p \in Below(s, 1) \cup Below(s, 2) :
                p \in log_dirs <=> (p \in seeds \/ HasLogFile(p))

\* C14 amended: what discovery returns holds directories only, and a path is
\* returned if and only if it was found by the first loop, or it lies 1 or 2
\* levels below a directory of the first loop, every directory from there down
\* to its parent can be listed, it can be listed itself and it has an
\* immediate file that looks like a log file. A directory without such a file
\* is not returned, while a child of it that qualifies is.
C14_ExactlyTheReachableLogHolders ==
    dpc = "done" =>
        /\ \A p \in log_dirs : IsDir(fs, p) /\ ~IsFile(fs, p)
        /\ log_dirs = seeds \cup
                {p \in UNION {ReachBelow(s, 1) \cup ReachBelow(s, 2) : s \in seeds} :
                    ~ListDenied(fs, p) /\ HasLogFile(p)}

\* C14 witness: /var/log/app has notes.md and no log file, and is not
\* returned; /var/log/app/logs below it has one and is returned; the file
\* /var/log/syslog is not.
C14_Witness ==
    /\ dpc = "done"
    /\ fs.denied = {}
    /\ IsFile(fs, <<"/var/log", "app", "notes.md">>)
    /\ ~HasLogFile(<<"/var/log", "app">>)
    /\ <<"/var/log", "app">> \notin log_dirs
    /\ <<"/var/log", "app", "logs">> \in log_dirs
    /\ IsFile(fs, <<"/var/log", "syslog">>)
    /\ <<"/var/log", "syslog">> \notin log_dirs

\* C15: a second call of discovery on the same filesystem returns the set
\* the first call returned, whatever order os.listdir and the set of
\* directories to walk from were enumerated in by either call.
C15_SecondCallReturnsSameSet ==
    (run = 2 /\ dpc = "done") => log_dirs = first

\* C15 witness: the second call has returned, on the filesystem with the
\* symbolic link, a set with directories found by the nested walk.
C15_Witness ==
    /\ run = 2
    /\ dpc = "done"
    /\ fs.cyclic
    /\ Cardinality(log_dirs) >= Cardinality(seeds) + 3
    /\ log_dirs = first

\* C16: when os.listdir of a directory is refused, the calls in progress stay
\* as they are and nothing leaves log_dirs; when discovery has returned, it
\* has tried every directory of the first loop, and every subdirectory of each
\* one that could be listed, whatever else was refused; and discovery does
\* return on a filesystem with a directory that cannot be listed.
C16_PermissionErrorSkipsBranchOnly ==
    /\ [][(\E p \in listed' \ listed : ListDenied(fs, p))
            => (/\ Len(stack') = Len(stack)
                /\ \A i \in 1..Len(stack) : stack'[i].directory = stack[i].directory
                /\ todo' \subseteq todo
                /\ log_dirs \subseteq log_dirs')]_vars
    /\ [](dpc = "done" =>
            \A s \in seeds :
                /\ s \in listed
                /\ ~ListDenied(fs, s) =>
                    \A p \in Below(s, 1) :
                        /\ p \in listed
                        /\ (~ListDenied(fs, p) /\ HasLogFile(p)) => p \in log_dirs)
    /\ ((dpc = "standard" /\ fs.denied # {}) ~> dpc = "done")

\* C16 witness: /var/log/nginx could not be listed; its sibling /var/log/app
\* was walked and /var/log/app/logs added, and /opt/svc/logs was tried.
C16_Witness ==
    /\ dpc = "done"
    /\ fs.denied = {"nginx"}
    /\ <<"/var/log", "nginx">> \in listed
    /\ <<"/var/log", "app">> \in listed
    /\ <<"/var/log", "app", "logs">> \in log_dirs
    /\ <<"/opt", "svc", "logs">> \in listed

----------------------------------------------------------------------------
(* The order of emission. *)

\* The lines of the events of evs whose descriptor is in watch_descriptors,
\* one for each, in the order of evs.
RECURSIVE Expected(_)
Expected(evs) ==
    IF evs = <<>> THEN <<>>
    ELSE (IF Head(evs).wd \in DOMAIN watch_descriptors
          THEN <<[event_type |-> event_type(Head(evs).mask),
                  path |-> watch_descriptors[Head(evs).wd],
                  filename |-> Head(evs).name]>>
          ELSE <<>>) \o Expected(Tail(evs))

\* The events read so far that the for loop has taken.
Handled == SubSeq(delivered, 1, Len(delivered) - Len(batch))

\* C20: while the loop runs, the lines printed so far are the lines of the
\* events handled so far whose descriptor resolves, each once, in the order
\* inotify.read() delivered them, within a batch and from batch to batch; the
\* events whose descriptor does not resolve leave no line. When the loop is
\* back at the read, every event read so far has been handled.
C20_EmittedOnceInOrder ==
    pc \in {"running", "processing"} =>
        /\ emitted = Expected(Handled)
        /\ pending = Len(batch)
        /\ pc = "running" => Handled = delivered

\* C20 witness: two batches have been handled; the first event and the last
\* were printed, in that order, the event between them was skipped.
C20_Witness ==
    /\ pc = "running"
    /\ Len(delivered) = 3
    /\ delivered[1].wd \in DOMAIN watch_descriptors
    /\ delivered[2].wd \notin DOMAIN watch_descriptors
    /\ delivered[3].wd \in DOMAIN watch_descriptors
    /\ delivered[1].mask # delivered[3].mask
    /\ Len(emitted) = 2
    /\ emitted[1].event_type = event_type(delivered[1].mask)
    /\ emitted[2].event_type = event_type(delivered[3].mask)

====
